---- MODULE Spec2Model ----
(***************************************************************************)
(* JupyterClient (packages/application/src/client.ts).                     *)
(*                                                                         *)
(* Two parts of the class are modelled:                                    *)
(*  - the constructor, which fills the four collaborator fields from the   *)
(*    options and derives the `restored` promise from the base class's     *)
(*    `started` promise and an animation-frame promise.  Promises are      *)
(*    modelled with their ECMAScript job semantics: settling a promise     *)
(*    queues its reactions, and every reaction is a separate job.          *)
(*  - the context-menu node walk: evtContextMenu records the event,        *)
(*    _getContextMenuNodes walks parentNode from its target, and           *)
(*    contextMenuFirst scans the walk with the caller's predicate.         *)
(***************************************************************************)
EXTENDS Integers, Sequences, FiniteSets

\* Number of DOM nodes.
MaxNodes == 3

VARIABLES
  options,          \* the IOptions record handed to the constructor
  commandLinker,    \* this.commandLinker
  docRegistry,      \* this.docRegistry
  restored,         \* this.restored (the id of a promise)
  serviceManager,   \* this.serviceManager
  promiseState,     \* promise id -> "absent" | "pending" | "fulfilled" | "rejected"
  promiseValue,     \* promise id -> settled value or rejection reason
  reactions,        \* reactions registered on pending promises
  jobs,             \* the promise job (microtask) queue
  rafPending,       \* the requestAnimationFrame callback has not run yet
  dom,              \* node -> its parentNode
  contextMenuEvent, \* this._contextMenuEvent
  events,           \* targets of the last two contextmenu events delivered
  lastCall,         \* the contextMenuFirst call that has just returned
  previousCall      \* the latest contextMenuFirst call since the latest event

vars == <<options, commandLinker, docRegistry, restored, serviceManager,
          promiseState, promiseValue, reactions, jobs, rafPending,
          dom, contextMenuEvent, events, lastCall, previousCall>>

ctorVars == <<options, commandLinker, docRegistry, restored, serviceManager>>
promiseVars == <<promiseState, promiseValue, reactions, jobs, rafPending>>
menuVars == <<dom, contextMenuEvent, events, lastCall, previousCall>>

----------------------------------------------------------------------------
(* Values *)

Undefined == "undefined"
Null == "null"
\* A value on which JavaScript's `a || b` yields b.
Falsy(v) == v \in {Undefined, Null}

\* An object passed in by the caller, and one built by the constructor.
Supplied == "supplied"
Default == "default"

\* Promise ids: the base class's `started`, the constructor's local
\* `restored` (settled by the animation frame), started.then(..),
\* started.then(..).catch(..), and a promise passed in options.restored.
Started == "started"
FramePromise == "frame"
ThenPromise == "then"
CatchPromise == "catch"
UserPromise == "user"
PromiseIds == {Started, FramePromise, ThenPromise, CatchPromise, UserPromise}

\* IOptions: each of the four members may be absent, null or an object.
OptionValues == {Undefined, Null, Supplied}
RestoredValues == {Undefined, Null, UserPromise}
Options == [commandLinker : OptionValues, docRegistry : OptionValues,
            serviceManager : OptionValues, restored : RestoredValues]

----------------------------------------------------------------------------
(* DOM *)

Nodes == 1 .. MaxNodes
\* parentNode === null, and an event target without a parentNode property.
NullNode == 0
NoProp == -1
\* The `undefined` returned by contextMenuFirst.
NotFound == 0

\* A predicate on nodes is the set of nodes it accepts.
Tests == SUBSET Nodes

\* The parent of a node is a node that is not one of its descendants: node
\* ids are a topological order of the tree.  A node that is its own parent
\* is admitted because the walk guards against it.
ParentValues(n) == {m \in Nodes : m >= n} \cup {NullNode, NoProp}

NoEvent == [recorded |-> FALSE, target |-> 0]
NoCall == [called |-> FALSE, test |-> {}, nodes |-> <<>>, tested |-> <<>>,
           result |-> NotFound]
NoPrevious == [called |-> FALSE, test |-> {}, nodes |-> <<>>,
               result |-> NotFound, repeated |-> FALSE]

----------------------------------------------------------------------------
(* The constructor *)

\* A reaction registered on a promise: when `source` settles, the job runs
\* for the derived promise `target`.
Reaction(kind, source, target) ==
  [kind |-> kind, source |-> source, target |-> target]

\* options.restored || this.started.then(() => restored).catch(() => restored)
\* with the chain dropped: the animation-frame promise is used directly.
ConstructorNoStarted(o) ==
  [commandLinker |-> IF Falsy(o.commandLinker) THEN Default ELSE o.commandLinker,
   docRegistry |-> IF Falsy(o.docRegistry) THEN Default ELSE o.docRegistry,
   restored |-> IF Falsy(o.restored) THEN FramePromise ELSE o.restored,
   serviceManager |-> IF Falsy(o.serviceManager) THEN Default ELSE o.serviceManager,
   created |-> {Started, FramePromise}
                 \cup (IF Falsy(o.restored) THEN {} ELSE {o.restored}),
   reactions |-> {}]

\* The chain without its catch(): this.started.then(() => restored).
ConstructorNoCatch(o) ==
  [commandLinker |-> IF Falsy(o.commandLinker) THEN Default ELSE o.commandLinker,
   docRegistry |-> IF Falsy(o.docRegistry) THEN Default ELSE o.docRegistry,
   restored |-> IF Falsy(o.restored) THEN ThenPromise ELSE o.restored,
   serviceManager |-> IF Falsy(o.serviceManager) THEN Default ELSE o.serviceManager,
   created |-> {Started, FramePromise}
                 \cup (IF Falsy(o.restored) THEN {ThenPromise} ELSE {o.restored}),
   reactions |-> IF Falsy(o.restored)
                   THEN {Reaction("reaction", Started, ThenPromise)}
                   ELSE {}]

\* The document registry is always built anew: options.docRegistry is ignored.
ConstructorOwnRegistry(o) ==
  [commandLinker |-> IF Falsy(o.commandLinker) THEN Default ELSE o.commandLinker,
   docRegistry |-> Default,
   restored |-> IF Falsy(o.restored) THEN CatchPromise ELSE o.restored,
   serviceManager |-> IF Falsy(o.serviceManager) THEN Default ELSE o.serviceManager,
   created |-> {Started, FramePromise}
                 \cup (IF Falsy(o.restored) THEN {ThenPromise, CatchPromise}
                                            ELSE {o.restored}),
   reactions |-> IF Falsy(o.restored)
                   THEN {Reaction("reaction", Started, ThenPromise),
                         Reaction("reaction", ThenPromise, CatchPromise)}
                   ELSE {}]

\* The service manager is taken from the options without a fallback.
ConstructorNoFallback(o) ==
  [commandLinker |-> IF Falsy(o.commandLinker) THEN Default ELSE o.commandLinker,
   docRegistry |-> IF Falsy(o.docRegistry) THEN Default ELSE o.docRegistry,
   restored |-> IF Falsy(o.restored) THEN CatchPromise ELSE o.restored,
   serviceManager |-> o.serviceManager,
   created |-> {Started, FramePromise}
                 \cup (IF Falsy(o.restored) THEN {ThenPromise, CatchPromise}
                                            ELSE {o.restored}),
   reactions |-> IF Falsy(o.restored)
                   THEN {Reaction("reaction", Started, ThenPromise),
                         Reaction("reaction", ThenPromise, CatchPromise)}
                   ELSE {}]

\* The fields the constructor assigns for options o, the promises that exist
\* when it returns and the reactions it has registered.  `a || b` evaluates
\* b only when a is falsy, so the then/catch chain is built only when
\* options.restored is; the animation-frame promise is always built.
Constructor(o) ==
  [commandLinker |-> IF Falsy(o.commandLinker) THEN Default ELSE o.commandLinker,
   docRegistry |-> IF Falsy(o.docRegistry) THEN Default ELSE o.docRegistry,
   restored |-> IF Falsy(o.restored) THEN CatchPromise ELSE o.restored,
   serviceManager |-> IF Falsy(o.serviceManager) THEN Default ELSE o.serviceManager,
   created |-> {Started, FramePromise}
                 \cup (IF Falsy(o.restored) THEN {ThenPromise, CatchPromise}
                                            ELSE {o.restored}),
   reactions |-> IF Falsy(o.restored)
                   THEN {Reaction("reaction", Started, ThenPromise),
                         Reaction("reaction", ThenPromise, CatchPromise)}
                   ELSE {}]

\* The state in which the constructor returns, for options o: every promise
\* is pending, the frame callback is requested, no contextmenu event has
\* been delivered and every node is detached.
Constructed(o) ==
  LET c == Constructor(o) IN
  /\ options = o
  /\ commandLinker = c.commandLinker
  /\ docRegistry = c.docRegistry
  /\ restored = c.restored
  /\ serviceManager = c.serviceManager
  /\ promiseState = [p \in PromiseIds |->
                       IF p \in c.created THEN "pending" ELSE "absent"]
  /\ promiseValue = [p \in PromiseIds |-> Undefined]
  /\ reactions = c.reactions
  /\ jobs = <<>>
  /\ rafPending = TRUE
  /\ dom = [n \in Nodes |-> NullNode]
  /\ contextMenuEvent = NoEvent
  /\ events = <<>>
  /\ lastCall = NoCall
  /\ previousCall = NoPrevious

Init == \E o \in Options : Constructed(o)

----------------------------------------------------------------------------
(* Promises *)

Settled(p) == promiseState[p] \in {"fulfilled", "rejected"}

\* The job queue after promise p has settled: the reaction registered on p
\* is queued (this program registers at most one reaction per promise).
QueueReactions(q, p) ==
  LET rs == {r \in reactions : r.source = p} IN
  IF rs = {} THEN q ELSE Append(q, CHOOSE r \in rs : TRUE)

\* Promise p settles with state s and value v.
Settle(q, p, s, v) ==
  /\ promiseState' = [promiseState EXCEPT ![p] = s]
  /\ promiseValue' = [promiseValue EXCEPT ![p] = v]
  /\ jobs' = QueueReactions(q, p)
  /\ reactions' = {r \in reactions : r.source # p}

\* The base class settles `started`: start() fulfils it with no value; a
\* rejection carries a reason.
SettleStarted(s) ==
  /\ promiseState[Started] = "pending"
  /\ Settle(jobs, Started, s, IF s = "fulfilled" THEN Undefined ELSE "error")
  /\ UNCHANGED <<rafPending, ctorVars, menuVars>>

\* The caller settles the promise it passed as options.restored.
SettleUser(s) ==
  /\ promiseState[UserPromise] = "pending"
  /\ Settle(jobs, UserPromise, s, IF s = "fulfilled" THEN "layout" ELSE "error")
  /\ UNCHANGED <<rafPending, ctorVars, menuVars>>

\* The frame callback runs but never calls resolve.
AnimationFrameNoResolve ==
  /\ rafPending
  /\ rafPending' = FALSE
  /\ UNCHANGED <<promiseState, promiseValue, jobs, reactions, ctorVars, menuVars>>

\* The requestAnimationFrame callback runs: resolve() fulfils the frame
\* promise with undefined.
AnimationFrame ==
  /\ rafPending
  /\ rafPending' = FALSE
  /\ Settle(jobs, FramePromise, "fulfilled", Undefined)
  /\ UNCHANGED <<ctorVars, menuVars>>

\* A handler has returned the frame promise, so promise t is resolved with
\* it: a job that calls frame.then(resolve t, reject t) is queued.
ResolveWithFrame(q, t) ==
  /\ jobs' = Append(q, Reaction("thenable", FramePromise, t))
  /\ UNCHANGED <<promiseState, promiseValue, reactions>>

\* The first job of the queue runs.
RunJob ==
  /\ jobs # <<>>
  /\ LET j == Head(jobs)
         q == Tail(jobs)
         s == promiseState[j.source]
         v == promiseValue[j.source]
     IN
     CASE j.kind = "reaction" /\ j.target = ThenPromise ->
            \* then(() => restored): a handler for fulfilment only
            IF s = "fulfilled" THEN ResolveWithFrame(q, j.target)
            ELSE Settle(q, j.target, s, v)
       [] j.kind = "reaction" /\ j.target = CatchPromise ->
            \* catch(() => restored): a handler for rejection only
            IF s = "rejected" THEN ResolveWithFrame(q, j.target)
            ELSE Settle(q, j.target, s, v)
       [] j.kind = "thenable" ->
            \* frame.then(resolve, reject) on a settled promise queues the
            \* reaction at once, on a pending one registers it
            IF Settled(j.source)
              THEN /\ jobs' = Append(q, Reaction("adopt", j.source, j.target))
                   /\ UNCHANGED <<promiseState, promiseValue, reactions>>
              ELSE /\ reactions' = reactions
                                     \cup {Reaction("adopt", j.source, j.target)}
                   /\ jobs' = q
                   /\ UNCHANGED <<promiseState, promiseValue>>
       [] j.kind = "adopt" ->
            \* the target takes the state and the value of the promise it
            \* was resolved with
            Settle(q, j.target, s, v)
  /\ UNCHANGED <<rafPending, ctorVars, menuVars>>

Next ==
  \/ \E s \in {"fulfilled", "rejected"} : SettleStarted(s)
  \/ \E s \in {"fulfilled", "rejected"} : SettleUser(s)
  \/ AnimationFrame
  \/ RunJob

Spec == Init /\ [][Next]_vars

\* The event loop runs every queued job and delivers the animation frame,
\* and the base class settles `started`.
LiveSpec ==
  /\ Spec
  /\ WF_vars(RunJob)
  /\ WF_vars(AnimationFrame)
  /\ WF_vars(\E s \in {"fulfilled", "rejected"} : SettleStarted(s))

----------------------------------------------------------------------------
(* The context menu *)

\* The walk without the test that a node is not its own parent.
RECURSIVE WalkParentsNoSelfTest(_)
WalkParentsNoSelfTest(nodes) ==
  LET last == nodes[Len(nodes)] IN
  IF Len(nodes) > MaxNodes THEN nodes
  ELSE IF dom[last] # NoProp /\ dom[last] # NullNode
         THEN WalkParentsNoSelfTest(Append(nodes, dom[last]))
         ELSE nodes

\* The while loop of _getContextMenuNodes: the parent of the last node is
\* pushed as long as the last node has a parentNode property, the property
\* is not null and it is not the node itself.  A list longer than MaxNodes
\* holds a node twice, and from there the loop of the source never exits:
\* the walk is cut at that length, which stands for a call that does not
\* return.
RECURSIVE WalkParents(_)
WalkParents(nodes) ==
  LET last == nodes[Len(nodes)] IN
  IF Len(nodes) > MaxNodes THEN nodes
  ELSE IF dom[last] # NoProp /\ dom[last] # NullNode /\ last # dom[last]
         THEN WalkParents(Append(nodes, dom[last]))
         ELSE nodes

\* Without an event the walk starts at the root of the document.
GetContextMenuNodesFromRoot ==
  IF ~contextMenuEvent.recorded THEN <<MaxNodes>>
  ELSE WalkParents(<<contextMenuEvent.target>>)

\* _getContextMenuNodes: nothing without a recorded event, else the walk
\* from the event's target.
GetContextMenuNodes ==
  IF ~contextMenuEvent.recorded THEN <<>>
  ELSE WalkParents(<<contextMenuEvent.target>>)

\* The scan that keeps the match nearest to the root.
RECURSIVE FirstMatchFromRoot(_, _, _)
FirstMatchFromRoot(nodes, test, k) ==
  IF k > Len(nodes) THEN [result |-> NotFound, tested |-> nodes]
  ELSE LET rest == FirstMatchFromRoot(nodes, test, k + 1) IN
       IF rest.result # NotFound \/ nodes[k] \notin test THEN rest
       ELSE [result |-> nodes[k], tested |-> nodes]

\* The for loop of contextMenuFirst from position k: the first node that
\* test accepts, and the nodes test has been called on.
RECURSIVE FirstMatch(_, _, _)
FirstMatch(nodes, test, k) ==
  IF k > Len(nodes) THEN [result |-> NotFound, tested |-> nodes]
  ELSE IF nodes[k] \in test
         THEN [result |-> nodes[k], tested |-> SubSeq(nodes, 1, k)]
         ELSE FirstMatch(nodes, test, k + 1)

\* contextMenuFirst that forgets the event once it has been searched.
ContextMenuFirstOnce(test) ==
  /\ LET nodes == GetContextMenuNodes
         found == FirstMatch(nodes, test, 1)
     IN lastCall' = [called |-> TRUE, test |-> test, nodes |-> nodes,
                     tested |-> found.tested, result |-> found.result]
  /\ contextMenuEvent' = NoEvent
  /\ UNCHANGED <<dom, events, ctorVars, promiseVars>>

\* contextMenuFirst(test).
ContextMenuFirst(test) ==
  /\ LET nodes == GetContextMenuNodes
         found == FirstMatch(nodes, test, 1)
     IN lastCall' = [called |-> TRUE, test |-> test, nodes |-> nodes,
                     tested |-> found.tested, result |-> found.result]
  /\ UNCHANGED <<dom, contextMenuEvent, events, ctorVars, promiseVars>>

\* The record of delivered events after one more on `target`: the targets
\* of the last two, the most recent last.
Delivered(target) ==
  IF events = <<>> THEN <<target>> ELSE <<events[Len(events)], target>>

\* evtContextMenu that keeps the event it already has.
EvtContextMenuKeepFirst(target) ==
  /\ contextMenuEvent' = IF contextMenuEvent.recorded THEN contextMenuEvent
                         ELSE [recorded |-> TRUE, target |-> target]
  /\ events' = Delivered(target)
  /\ lastCall' = NoCall
  /\ UNCHANGED <<dom, ctorVars, promiseVars>>

\* evtContextMenu(event) for an event on `target`: the event is stored;
\* the base class's handler it then calls keeps no state of this class.
EvtContextMenu(target) ==
  /\ contextMenuEvent' = [recorded |-> TRUE, target |-> target]
  /\ events' = Delivered(target)
  /\ lastCall' = NoCall
  /\ UNCHANGED <<dom, ctorVars, promiseVars>>

\* The document changes: node n gets parent p (or is detached).
SetParentNode(n, p) ==
  /\ p # dom[n]
  /\ dom' = [dom EXCEPT ![n] = p]
  /\ lastCall' = NoCall
  /\ UNCHANGED <<contextMenuEvent, events, ctorVars, promiseVars>>

\* The context-menu operations read none of the collaborators: they are
\* explored from the construction with no override and the one with all.
MenuOptions ==
  {o \in Options :
     \/ o.commandLinker = Undefined /\ o.docRegistry = Undefined
        /\ o.serviceManager = Undefined /\ o.restored = Undefined
     \/ o.commandLinker = Supplied /\ o.docRegistry = Supplied
        /\ o.serviceManager = Supplied /\ o.restored = UserPromise}

MenuInit == \E o \in MenuOptions : Constructed(o)

MenuNext ==
  \/ \E n \in Nodes : EvtContextMenu(n) /\ UNCHANGED previousCall
  \/ \E test \in Tests : ContextMenuFirst(test) /\ UNCHANGED previousCall
  \/ \E n \in Nodes : \E p \in ParentValues(n) :
       SetParentNode(n, p) /\ UNCHANGED previousCall

MenuSpec == MenuInit /\ [][MenuNext]_vars

\* The same operations with a record of the calls: previousCall keeps the
\* predicate, the node list and the result of the latest contextMenuFirst
\* call while the document changes, and is dropped by the next event.
\* `repeated` marks a call that follows, after a change of the document, a
\* call with the same predicate that walked the same nodes.
RecordCall ==
  previousCall' =
    [called |-> TRUE, test |-> lastCall'.test, nodes |-> lastCall'.nodes,
     result |-> lastCall'.result,
     repeated |-> /\ previousCall.called /\ ~lastCall.called
                  /\ previousCall.test = lastCall'.test
                  /\ previousCall.nodes = lastCall'.nodes]

RecallNext ==
  \/ \E n \in Nodes : EvtContextMenu(n) /\ previousCall' = NoPrevious
  \/ \E test \in Tests : ContextMenuFirst(test) /\ RecordCall
  \/ \E n \in Nodes : \E p \in ParentValues(n) \ {NoProp} :
       SetParentNode(n, p) /\ UNCHANGED previousCall

\* The record of calls is explored from the construction with every
\* override, on documents whose nodes all have a parentNode property (a
\* node without one ends the walk as a node whose parentNode is null does).
RecallInit ==
  \E o \in {x \in MenuOptions : x.restored = UserPromise} : Constructed(o)

RecallSpec == RecallInit /\ [][RecallNext]_vars

----------------------------------------------------------------------------
(* Properties *)

AllSupplied ==
  /\ options.commandLinker = Supplied /\ options.docRegistry = Supplied
  /\ options.serviceManager = Supplied /\ options.restored = UserPromise

NoOverride ==
  /\ Falsy(options.commandLinker) /\ Falsy(options.docRegistry)
  /\ Falsy(options.serviceManager) /\ Falsy(options.restored)

RestoredOmitted == Falsy(options.restored)

\* C1: when all four overrides are supplied, the four fields are the
\* supplied objects themselves: none is a default, and `restored` is not a
\* promise derived from `started` or from the animation frame.
C1_OverridesKept ==
  AllSupplied =>
    /\ commandLinker = options.commandLinker /\ commandLinker # Default
    /\ docRegistry = options.docRegistry /\ docRegistry # Default
    /\ serviceManager = options.serviceManager /\ serviceManager # Default
    /\ restored = options.restored
    /\ restored \notin {Started, FramePromise, ThenPromise, CatchPromise}

C1_Witness ==
  /\ AllSupplied
  /\ docRegistry = Supplied /\ restored = UserPromise
  /\ Settled(Started) /\ ~rafPending /\ jobs = <<>>

\* C2: after construction, whichever overrides are supplied or omitted, the
\* four fields are neither undefined nor null, in every later state too.
C2_FieldsPresent ==
  /\ ~Falsy(commandLinker)
  /\ ~Falsy(docRegistry)
  /\ ~Falsy(serviceManager)
  /\ ~Falsy(restored)

C2_Witness ==
  /\ options.commandLinker = Null /\ options.docRegistry = Supplied
  /\ options.serviceManager = Undefined /\ options.restored = Null
  /\ commandLinker = Default /\ docRegistry = Supplied
  /\ serviceManager = Default /\ restored = CatchPromise
  /\ Settled(restored)

\* C3: with no `restored` override, when `started` is rejected `restored` is
\* never rejected; it is fulfilled only with undefined and only after the
\* animation frame; and once `started` is rejected and the frame has run,
\* `restored` is eventually fulfilled.
C3_RejectionAbsorbed ==
  /\ []((RestoredOmitted /\ promiseState[Started] = "rejected") =>
          /\ promiseState[restored] # "rejected"
          /\ promiseState[restored] = "fulfilled" =>
               (promiseValue[restored] = Undefined /\ ~rafPending))
  /\ (RestoredOmitted /\ promiseState[Started] = "rejected" /\ ~rafPending)
       ~> (promiseState[restored] = "fulfilled")

C3_Witness ==
  /\ RestoredOmitted
  /\ promiseState[Started] = "rejected"
  /\ promiseState[ThenPromise] = "rejected"
  /\ promiseState[restored] = "fulfilled"
  /\ promiseValue[restored] = Undefined

\* C4: with no override at all, `restored` is eventually fulfilled with
\* undefined.
C4_RestoredSettles ==
  NoOverride ~>
    (promiseState[restored] = "fulfilled" /\ promiseValue[restored] = Undefined)

C4_Witness ==
  /\ NoOverride
  /\ restored = CatchPromise
  /\ promiseState[restored] = "fulfilled" /\ promiseValue[restored] = Undefined

\* C10: with no `restored` override, `restored` is settled only when
\* `started` has settled and the animation-frame callback has run.
C10_RestoredAfterBoth ==
  (RestoredOmitted /\ Settled(restored)) => (Settled(Started) /\ ~rafPending)

C10_Witness ==
  /\ RestoredOmitted
  /\ promiseState[Started] = "fulfilled"
  /\ promiseState[restored] = "fulfilled"

\* The nodes from n upward along parentNode, n included.
RECURSIVE AncestorsOrSelf(_)
AncestorsOrSelf(n) ==
  {n} \cup (IF dom[n] \in Nodes /\ dom[n] # n THEN AncestorsOrSelf(dom[n])
            ELSE {})

\* C5: with an event recorded, contextMenuFirst(test) returns the node of
\* the target's ancestor chain that test accepts and below which, on the
\* chain, test accepts nothing; it returns undefined exactly when test
\* accepts no node of the chain.
C5_FirstMatch ==
  (lastCall.called /\ contextMenuEvent.recorded) =>
    LET chain == AncestorsOrSelf(contextMenuEvent.target)
        r == lastCall.result
    IN IF chain \cap lastCall.test = {}
         THEN r = NotFound
         ELSE /\ r \in chain \cap lastCall.test
              /\ \A m \in chain \cap lastCall.test : m \in AncestorsOrSelf(r)

C5_Witness ==
  /\ lastCall.called /\ contextMenuEvent.recorded
  /\ lastCall.result # NotFound
  /\ lastCall.result # contextMenuEvent.target
  /\ Cardinality(AncestorsOrSelf(contextMenuEvent.target) \cap lastCall.test) >= 2

\* C6: while no contextmenu event has ever been delivered,
\* contextMenuFirst returns undefined for every predicate and calls the
\* predicate on no node.
C6_NoEventNotFound ==
  (lastCall.called /\ events = <<>>) =>
    (lastCall.result = NotFound /\ lastCall.tested = <<>>)

C6_Witness ==
  /\ lastCall.called /\ events = <<>>
  /\ lastCall.test = Nodes
  /\ lastCall.result = NotFound

\* C7: after any events, the stored event is the most recent one (it is
\* never cleared and never an earlier one), and contextMenuFirst tests and
\* returns only nodes of the ancestor chain of that event's target.
C7_LatestEventOnly ==
  events # <<>> =>
    LET latest == events[Len(events)] IN
    /\ contextMenuEvent = [recorded |-> TRUE, target |-> latest]
    /\ lastCall.called =>
         /\ \A i \in DOMAIN lastCall.tested :
              lastCall.tested[i] \in AncestorsOrSelf(latest)
         /\ lastCall.result \in AncestorsOrSelf(latest) \cup {NotFound}

C7_Witness ==
  /\ Len(events) = 2
  /\ events[1] \notin AncestorsOrSelf(events[2])
  /\ lastCall.called
  /\ events[1] \in lastCall.test
  /\ lastCall.result = NotFound

\* C8: the list built by _getContextMenuNodes starts at the event's target,
\* every next element is the parent of the one before and differs from it,
\* the last element has no parent or is its own parent, and the list is
\* finite: no node occurs twice in it.
C8_AncestorChain ==
  (lastCall.called /\ contextMenuEvent.recorded) =>
    LET ns == lastCall.nodes IN
    /\ Len(ns) >= 1 /\ Len(ns) <= MaxNodes
    /\ ns[1] = contextMenuEvent.target
    /\ \A i \in 1 .. Len(ns) - 1 : ns[i + 1] = dom[ns[i]] /\ ns[i + 1] # ns[i]
    /\ dom[ns[Len(ns)]] \in {NullNode, NoProp, ns[Len(ns)]}
    /\ \A i, j \in DOMAIN ns : ns[i] = ns[j] => i = j

C8_Witness ==
  /\ lastCall.called /\ contextMenuEvent.recorded
  /\ Len(lastCall.nodes) >= 2
  /\ dom[lastCall.nodes[Len(lastCall.nodes)]] = lastCall.nodes[Len(lastCall.nodes)]

====
